---- MODULE Spec2Model ----
(***************************************************************************)
(* rei-tracer: the vec3 value type (include/vec3.hpp) and the ray          *)
(* primitive built on it (include/ray.hpp).                                *)
(*                                                                         *)
(* A C++ double is modelled by a record [k, s, m, a]:                      *)
(*   k = "fin"  the integer s*m, held exactly (every |n| < 2^53 is a       *)
(*              double; s = -1, m = 0 is the negative zero)                *)
(*   k = "inf"  the infinity of sign s                                     *)
(*   k = "nan"  a NaN                                                      *)
(*   k = "rnd"  the correctly rounded result of the operation named by the  *)
(*              term a = <<op, p, q>> on two doubles, kept as a term when  *)
(*              it is not one of the above (1/3, sqrt(2)); IEEE-754 fixes  *)
(*              the result from the operands, so equal terms are equal     *)
(*              doubles (distinct terms may be equal doubles too)          *)
(*   k = "unk"  a result the term language does not fix (a sum with a      *)
(*              "rnd" operand); a call whose result holds one is outside   *)
(*              the bounded model                                          *)
(***************************************************************************)
EXTENDS Integers, Sequences, FiniteSets, TLC

\* ---------------------------------------------------------------- bounds
\* finite components and scalars are drawn from -1 .. MaxVal
MaxVal == 1
\* an index argument is drawn from -MaxIdx .. MaxIdx + 2 and from the top of
\* the unsigned range
MaxIdx == 1
\* a run of the object machine makes at most MaxOps calls
MaxOps == 3

\* ------------------------------------------------------- double arithmetic
Abs(n) == IF n < 0 THEN -n ELSE n

Fin(n) == [k |-> "fin", s |-> IF n < 0 THEN -1 ELSE 1, m |-> Abs(n), a |-> <<>>]
NegZero == [k |-> "fin", s |-> -1, m |-> 0, a |-> <<>>]
Inf(sg) == [k |-> "inf", s |-> sg, m |-> 0, a |-> <<>>]
PInf == Inf(1)
NInf == Inf(-1)
NaN == [k |-> "nan", s |-> 1, m |-> 0, a |-> <<>>]
Unk == [k |-> "unk", s |-> 1, m |-> 0, a |-> <<>>]
Rnd(sg, op, p, q) == [k |-> "rnd", s |-> sg, m |-> 0, a |-> <<op, p, q>>]

IsZero(p) == p.k = "fin" /\ p.m = 0
IsFinite(p) == p.k \in {"fin", "rnd"}
\* |p|: the sign bit cleared
DAbs(p) == [p EXCEPT !.s = 1]
Zero(sg) == IF sg < 0 THEN NegZero ELSE Fin(0)

\* unary minus on a double: flips the sign bit (a NaN stays a NaN)
DNeg(p) == IF p.k \in {"nan", "unk"} THEN p ELSE [p EXCEPT !.s = -p.s]

\* p + q, round to nearest
DAdd(p, q) ==
    CASE p.k = "nan" \/ q.k = "nan" -> NaN
      [] p.k = "unk" \/ q.k = "unk" -> Unk
      [] p.k = "inf" /\ q.k = "inf" -> IF p.s = q.s THEN p ELSE NaN
      [] p.k = "inf" -> p
      [] q.k = "inf" -> q
      [] IsZero(p) /\ IsZero(q) -> IF p.s = -1 /\ q.s = -1 THEN NegZero ELSE Fin(0)
      [] IsZero(p) -> q
      [] IsZero(q) -> p
      [] p.k = "fin" /\ q.k = "fin" -> Fin(p.s * p.m + q.s * q.m)
      [] p = DNeg(q) -> Fin(0)
      [] OTHER -> Unk

\* p - q is p + (-q) in IEEE-754
DSub(p, q) == DAdd(p, DNeg(q))

\* p * q, round to nearest
DMul(p, q) ==
    CASE p.k = "nan" \/ q.k = "nan" -> NaN
      [] p.k = "unk" \/ q.k = "unk" -> Unk
      [] (p.k = "inf" /\ IsZero(q)) \/ (IsZero(p) /\ q.k = "inf") -> NaN
      [] p.k = "inf" \/ q.k = "inf" -> Inf(p.s * q.s)
      [] IsZero(p) \/ IsZero(q) -> Zero(p.s * q.s)
      [] p.k = "fin" /\ q.k = "fin" ->
            [k |-> "fin", s |-> p.s * q.s, m |-> p.m * q.m, a |-> <<>>]
      [] p.k = "fin" /\ p.m = 1 -> [q EXCEPT !.s = p.s * q.s]
      [] q.k = "fin" /\ q.m = 1 -> [p EXCEPT !.s = p.s * q.s]
      [] OTHER -> Rnd(p.s * q.s, "mul", DAbs(p), DAbs(q))

\* p / q, round to nearest
DDiv(p, q) ==
    CASE p.k = "nan" \/ q.k = "nan" -> NaN
      [] p.k = "unk" \/ q.k = "unk" -> Unk
      [] p.k = "inf" /\ q.k = "inf" -> NaN
      [] p.k = "inf" -> Inf(p.s * q.s)
      [] q.k = "inf" -> Zero(p.s * q.s)
      [] IsZero(p) /\ IsZero(q) -> NaN
      [] IsZero(q) -> Inf(p.s * q.s)
      [] IsZero(p) -> Zero(p.s * q.s)
      [] p.k = "fin" /\ q.k = "fin" /\ p.m % q.m = 0 ->
            [k |-> "fin", s |-> p.s * q.s, m |-> p.m \div q.m, a |-> <<>>]
      [] q.k = "fin" /\ q.m = 1 -> [p EXCEPT !.s = p.s * q.s]
      [] DAbs(p) = DAbs(q) -> Fin(p.s * q.s)
      [] OTHER -> Rnd(p.s * q.s, "div", DAbs(p), DAbs(q))

\* the integer square root of n when n is a perfect square, else -1
ISqrt(n) == IF \E r \in 0..n : r * r = n
            THEN CHOOSE r \in 0..n : r * r = n
            ELSE -1

\* sqrt(p) of <cmath>, correctly rounded
DSqrt(p) ==
    CASE p.k = "nan" -> NaN
      [] p.k = "unk" -> Unk
      [] IsZero(p) -> p
      [] p.s = -1 -> NaN
      [] p.k = "inf" -> PInf
      [] p.k = "fin" /\ ISqrt(p.m) >= 0 -> Fin(ISqrt(p.m))
      [] OTHER -> Rnd(1, "sqrt", p, p)

\* ------------------------------------------------------------ unsigned int
\* operator[] takes an unsigned int: an int argument is converted modulo 2^32.
\* The 32-bit value is held as two 16-bit halves [hi, lo].
Word == 65536
MaxInt == 2147483647
ToUnsigned(n) ==
    IF n >= 0
    THEN [hi |-> n \div Word, lo |-> n % Word]
    ELSE [hi |-> (Word - 1) - ((-n - 1) \div Word),
          lo |-> (Word - 1) - ((-n - 1) % Word)]
\* the test i > 2 on an unsigned int
UGt2(u) == u.hi > 0 \/ u.lo > 2

\* ------------------------------------------------------------------ state
\* The objects: the caller's two vectors v and w, the vector most recently
\* returned by value (tmp), and the two members of the ray.
Obj == {"v", "w", "tmp", "start", "direction"}

VARIABLES
    heap,    \* Obj -> std::array<double, 3> e
    ret,     \* what the last call returned
    exc,     \* the exception the last call threw, if any
    call,    \* the last call and its arguments
    made,    \* the components v and w were constructed from
    built,   \* the origin and direction the ray was last constructed from
    budget   \* calls left in this run

vars == <<heap, ret, exc, call, made, built, budget>>

NoRet == [t |-> "void", obj |-> "", idx |-> 0, val |-> Fin(0)]
RetDouble(d) == [t |-> "double", obj |-> "", idx |-> 0, val |-> d]
RetVec == [t |-> "vec3", obj |-> "tmp", idx |-> 0, val |-> Fin(0)]
RetVecRef(o) == [t |-> "vec3&", obj |-> o, idx |-> 0, val |-> Fin(0)]
RetDoubleRef(o, i) == [t |-> "double&", obj |-> o, idx |-> i, val |-> Fin(0)]
NoExc == [type |-> "", what |-> ""]
Throw(ty, msg) == [type |-> ty, what |-> msg]

Returns(h, r) == [heap |-> h, ret |-> r, exc |-> NoExc]
Throws(h, ty, msg) == [heap |-> h, ret |-> NoRet, exc |-> Throw(ty, msg)]

\* ------------------------------------------------------------------- vec3
\* vec3(x, y, z)
vec3(a, b, c) == (0 :> a @@ 1 :> b @@ 2 :> c)
\* vec3()
vec3_default == vec3(Fin(0), Fin(0), Fin(0))

x(e) == e[0]
y(e) == e[1]
z(e) == e[2]

\* a vec3 returned by value: a new object, held in tmp
ReturnVec(h, e) == Returns([h EXCEPT !["tmp"] = e], RetVec)

newX(h, this, d) == Returns([h EXCEPT ![this][0] = d], NoRet)
\* mutant: newY writes the x component
newY_writes_x(h, this, d) == Returns([h EXCEPT ![this][0] = d], NoRet)
newY(h, this, d) == Returns([h EXCEPT ![this][1] = d], NoRet)
newZ(h, this, d) == Returns([h EXCEPT ![this][2] = d], NoRet)

\* mutant: the z component is not negated
operator_neg_no_z(h, this) ==
    ReturnVec(h, vec3(DNeg(h[this][0]), DNeg(h[this][1]), h[this][2]))

operator_neg(h, this) ==
    ReturnVec(h, vec3(DNeg(h[this][0]), DNeg(h[this][1]), DNeg(h[this][2])))

\* mutant: the read returns the first component whatever the index
operator_index_const_first(h, this, i) ==
    IF UGt2(i)
    THEN Throws(h, "std::invalid_argument",
                "Index out of bounds: vector index must be 0, 1, or 2!")
    ELSE Returns(h, RetDouble(h[this][0]))

operator_index_const(h, this, i) ==
    IF UGt2(i)
    THEN Throws(h, "std::invalid_argument",
                "Index out of bounds: vector index must be 0, 1, or 2!")
    ELSE Returns(h, RetDouble(h[this][i.lo]))

\* mutant: the write path throws another kind of exception
operator_index_out_of_range(h, this, i) ==
    IF UGt2(i)
    THEN Throws(h, "std::out_of_range",
                "Indexing out of bounds: vector index must be 0, 1, or 2!")
    ELSE Returns(h, RetDoubleRef(this, i.lo))

operator_index(h, this, i) ==
    IF UGt2(i)
    THEN Throws(h, "std::invalid_argument",
                "Indexing out of bounds: vector index must be 0, 1, or 2!")
    ELSE Returns(h, RetDoubleRef(this, i.lo))

\* mutant: the sum is returned by value, as operator+ returns it
operator_plus_eq_by_value(h, this, v) ==
    LET h1 == [h EXCEPT ![this][0] = DAdd(h[this][0], x(h[v]))]
        h2 == [h1 EXCEPT ![this][1] = DAdd(h1[this][1], y(h1[v]))]
        h3 == [h2 EXCEPT ![this][2] = DAdd(h2[this][2], z(h2[v]))]
    IN  ReturnVec(h3, h3[this])

\* the three statements run in order, each reading v through the heap as
\* it then is (v may be the receiver itself)
operator_plus_eq(h, this, v) ==
    LET h1 == [h EXCEPT ![this][0] = DAdd(h[this][0], x(h[v]))]
        h2 == [h1 EXCEPT ![this][1] = DAdd(h1[this][1], y(h1[v]))]
        h3 == [h2 EXCEPT ![this][2] = DAdd(h2[this][2], z(h2[v]))]
    IN  Returns(h3, RetVecRef(this))

operator_times_eq(h, this, t) ==
    Returns([h EXCEPT ![this] = vec3(DMul(h[this][0], t), DMul(h[this][1], t),
                                     DMul(h[this][2], t))],
            RetVecRef(this))

operator_div_eq(h, this, t) == operator_times_eq(h, this, DDiv(Fin(1), t))

operator_plus(h, this, v) ==
    ReturnVec(h, vec3(DAdd(x(h[this]), x(h[v])), DAdd(y(h[this]), y(h[v])),
                      DAdd(z(h[this]), z(h[v]))))

\* mutant: the difference is taken in place, as operator-= would
operator_minus_in_place(h, this, v) ==
    LET e == vec3(DSub(x(h[this]), x(h[v])), DSub(y(h[this]), y(h[v])),
                  DSub(z(h[this]), z(h[v])))
    IN  ReturnVec([h EXCEPT ![this] = e], e)

operator_minus(h, this, v) ==
    ReturnVec(h, vec3(DSub(x(h[this]), x(h[v])), DSub(y(h[this]), y(h[v])),
                      DSub(z(h[this]), z(h[v]))))

operator_times(h, this, v) ==
    ReturnVec(h, vec3(DMul(x(h[this]), x(h[v])), DMul(y(h[this]), y(h[v])),
                      DMul(z(h[this]), z(h[v]))))

operator_div(h, this, t) ==
    ReturnVec(h, vec3(DDiv(x(h[this]), t), DDiv(y(h[this]), t),
                      DDiv(z(h[this]), t)))

dot(h, this, v) ==
    Returns(h, RetDouble(DAdd(DAdd(DMul(x(h[this]), x(h[v])),
                                   DMul(y(h[this]), y(h[v]))),
                              DMul(z(h[this]), z(h[v])))))

\* mutant: a + for the - of the z component
cross_plus(h, this, v) ==
    ReturnVec(h, vec3(DSub(DMul(y(h[this]), z(h[v])), DMul(z(h[this]), y(h[v]))),
                      DSub(DMul(z(h[this]), x(h[v])), DMul(x(h[this]), z(h[v]))),
                      DAdd(DMul(x(h[this]), y(h[v])), DMul(y(h[this]), x(h[v])))))

cross(h, this, v) ==
    ReturnVec(h, vec3(DSub(DMul(y(h[this]), z(h[v])), DMul(z(h[this]), y(h[v]))),
                      DSub(DMul(z(h[this]), x(h[v])), DMul(x(h[this]), z(h[v]))),
                      DSub(DMul(x(h[this]), y(h[v])), DMul(y(h[this]), x(h[v])))))

length_squared(h, this) ==
    Returns(h, RetDouble(DAdd(DAdd(DMul(x(h[this]), x(h[this])),
                                   DMul(y(h[this]), y(h[this]))),
                              DMul(z(h[this]), z(h[this])))))

length(h, this) ==
    LET r == length_squared(h, this)
    IN  Returns(r.heap, RetDouble(DSqrt(r.ret.val)))

unit_vector(h, this) ==
    LET r == length(h, this)
    IN  operator_div(r.heap, this, r.ret.val)

\* operator*(const double t, const vec3 &v)
operator_times_dv(h, t, v) ==
    ReturnVec(h, vec3(DMul(t, x(h[v])), DMul(t, y(h[v])), DMul(t, z(h[v]))))

\* mutant: v * t written out again, and the z component left unscaled
operator_times_vd_no_z(h, v, t) ==
    ReturnVec(h, vec3(DMul(t, x(h[v])), DMul(t, y(h[v])), z(h[v])))

\* operator*(const vec3 &v, const double t)
operator_times_vd(h, v, t) == operator_times_dv(h, t, v)

\* -------------------------------------------------------------------- ray
\* ray(): the two members are default-constructed
ray_default(h) ==
    [h EXCEPT !["start"] = vec3_default, !["direction"] = vec3_default]

\* ray(const point3 &_start, const vec3 &_dir)
ray_ctor(h, _start, _dir) ==
    LET h0 == ray_default(h)
        h1 == [h0 EXCEPT !["start"] = h0[_start]]
        h2 == [h1 EXCEPT !["direction"] = h1[_dir]]
    IN  Returns(h2, NoRet)

\* mutant: the member is returned by reference
origin_by_reference(h) == Returns(h, RetVecRef("start"))
origin(h) == ReturnVec(h, h["start"])
dir(h) == ReturnVec(h, h["direction"])

\* mutant: origin and direction take each other's place
at_swapped(h, t) ==
    LET r == operator_times_dv(h, t, "start")
    IN  operator_plus(r.heap, "direction", r.ret.obj)

\* start + (t * direction)
at(h, t) ==
    LET r == operator_times_dv(h, t, "direction")
    IN  operator_plus(r.heap, "start", r.ret.obj)

\* ------------------------------------------------------------ the caller
\* The values a caller passes: the integers -1 .. MaxVal, an infinity and a
\* NaN (-inf, -0 and the other integers arise from the operations).
Fins == {Fin(n) : n \in -1..MaxVal}
Doubles == Fins \cup {PInf, NaN}
\* The int arguments passed as an index
IdxArgs == (-MaxIdx..(MaxIdx + 2)) \cup {MaxInt, -MaxInt}

\* The caller's own vectors, and the vectors it can reach: its own and the
\* one the last call returned (a temporary, or whatever a reference names)
Mine == {"v", "w"}
Held == Mine \cup (IF ret.t \in {"vec3", "vec3&"} THEN {ret.obj} ELSE {})

Call(op, this, arg, arg2, i, d, d2) ==
    [op |-> op, this |-> this, arg |-> arg, arg2 |-> arg2, i |-> i, d |-> d,
     d2 |-> d2]
NoCall == Call("", "", "", "", 0, Fin(0), Fin(0))

\* no double of the result lies outside the value model
Representable(r) ==
    /\ \A o \in Obj : \A j \in 0..2 : r.heap[o][j].k # "unk"
    /\ r.ret.val.k # "unk"

Do(r, c) ==
    /\ budget > 0
    /\ Representable(r)
    /\ heap' = r.heap
    /\ ret' = r.ret
    /\ exc' = r.exc
    /\ call' = c
    /\ budget' = budget - 1
    /\ UNCHANGED made

\* o.newX(d), o.newY(d), o.newZ(d)
NewX(o, d) ==
    /\ Do(newX(heap, o, d), Call("newX", o, "", "", 0, d, Fin(0)))
    /\ UNCHANGED built
NewY(o, d) ==
    /\ Do(newY(heap, o, d), Call("newY", o, "", "", 1, d, Fin(0)))
    /\ UNCHANGED built
NewZ(o, d) ==
    /\ Do(newZ(heap, o, d), Call("newZ", o, "", "", 2, d, Fin(0)))
    /\ UNCHANGED built

\* d = o[i] on a const vec3
IndexRead(o, i) ==
    /\ Do(operator_index_const(heap, o, ToUnsigned(i)),
          Call("index_read", o, "", "", i, Fin(0), Fin(0)))
    /\ UNCHANGED built

\* the assignment through the reference that operator[] returned
Assign(r, d) ==
    IF r.exc # NoExc
    THEN r
    ELSE [r EXCEPT !.heap[r.ret.obj][r.ret.idx] = d]

\* o[i] = d
IndexWrite(o, i, d) ==
    /\ Do(Assign(operator_index(heap, o, ToUnsigned(i)), d),
          Call("index_write", o, "", "", i, d, Fin(0)))
    /\ UNCHANGED built

\* -o, o + p, o - p, o * p, o / t, o.dot(p), o.cross(p), o.length(),
\* o.length_squared(), o.unit_vector(), t * o, o * t
Neg(o) ==
    /\ Do(operator_neg(heap, o), Call("neg", o, "", "", 0, Fin(0), Fin(0)))
    /\ UNCHANGED built
Plus(o, p) ==
    /\ Do(operator_plus(heap, o, p), Call("plus", o, p, "", 0, Fin(0), Fin(0)))
    /\ UNCHANGED built
Minus(o, p) ==
    /\ Do(operator_minus(heap, o, p), Call("minus", o, p, "", 0, Fin(0), Fin(0)))
    /\ UNCHANGED built
Times(o, p) ==
    /\ Do(operator_times(heap, o, p), Call("times", o, p, "", 0, Fin(0), Fin(0)))
    /\ UNCHANGED built
Div(o, t) ==
    /\ Do(operator_div(heap, o, t), Call("div", o, "", "", 0, t, Fin(0)))
    /\ UNCHANGED built
Dot(o, p) ==
    /\ Do(dot(heap, o, p), Call("dot", o, p, "", 0, Fin(0), Fin(0)))
    /\ UNCHANGED built
Cross(o, p) ==
    /\ Do(cross(heap, o, p), Call("cross", o, p, "", 0, Fin(0), Fin(0)))
    /\ UNCHANGED built
Length(o) ==
    /\ Do(length(heap, o), Call("length", o, "", "", 0, Fin(0), Fin(0)))
    /\ UNCHANGED built
LengthSquared(o) ==
    /\ Do(length_squared(heap, o),
          Call("length_squared", o, "", "", 0, Fin(0), Fin(0)))
    /\ UNCHANGED built
UnitVector(o) ==
    /\ Do(unit_vector(heap, o), Call("unit_vector", o, "", "", 0, Fin(0), Fin(0)))
    /\ UNCHANGED built
TimesDV(t, o) ==
    /\ Do(operator_times_dv(heap, t, o), Call("times_dv", "", o, "", 0, t, Fin(0)))
    /\ UNCHANGED built
TimesVD(o, t) ==
    /\ Do(operator_times_vd(heap, o, t), Call("times_vd", "", o, "", 0, t, Fin(0)))
    /\ UNCHANGED built

\* o += p, o *= t, o /= t
PlusEq(o, p) ==
    /\ Do(operator_plus_eq(heap, o, p),
          Call("plus_eq", o, p, "", 0, Fin(0), Fin(0)))
    /\ UNCHANGED built
TimesEq(o, t) ==
    /\ Do(operator_times_eq(heap, o, t), Call("times_eq", o, "", "", 0, t, Fin(0)))
    /\ UNCHANGED built
DivEq(o, t) ==
    /\ Do(operator_div_eq(heap, o, t), Call("div_eq", o, "", "", 0, t, Fin(0)))
    /\ UNCHANGED built

\* (o += p) += q: the second call is made on whatever the first returned
ChainPlusEq(o, p, q) ==
    /\ LET r == operator_plus_eq(heap, o, p)
       IN  Do(operator_plus_eq(r.heap, r.ret.obj, q),
              Call("chain_plus_eq", o, p, q, 0, Fin(0), Fin(0)))
    /\ UNCHANGED built
\* (o *= s) *= t
ChainTimesEq(o, s, t) ==
    /\ LET r == operator_times_eq(heap, o, s)
       IN  Do(operator_times_eq(r.heap, r.ret.obj, t),
              Call("chain_times_eq", o, "", "", 0, s, t))
    /\ UNCHANGED built

\* r = ray(o, p)
RayCtor(o, p) ==
    /\ Do(ray_ctor(heap, o, p), Call("ray", "", o, p, 0, Fin(0), Fin(0)))
    /\ built' = [O |-> heap[o], D |-> heap[p]]
\* r.origin(), r.dir(), r.at(t)
RayOrigin ==
    /\ Do(origin(heap), Call("origin", "", "", "", 0, Fin(0), Fin(0)))
    /\ UNCHANGED built
RayDir ==
    /\ Do(dir(heap), Call("dir", "", "", "", 0, Fin(0), Fin(0)))
    /\ UNCHANGED built
RayAt(t) ==
    /\ Do(at(heap, t), Call("at", "", "", "", 0, t, Fin(0)))
    /\ UNCHANGED built

\* o + (-o): the negation is a temporary, the right operand of the sum
PlusNeg(o) ==
    /\ LET r == operator_neg(heap, o)
       IN  Do(operator_plus(r.heap, o, r.ret.obj),
              Call("plus_neg", o, "", "", 0, Fin(0), Fin(0)))
    /\ UNCHANGED built
\* o + vec3()
PlusZero(o) ==
    /\ Do(operator_plus([heap EXCEPT !["tmp"] = vec3_default], o, "tmp"),
          Call("plus_zero", o, "", "", 0, Fin(0), Fin(0)))
    /\ UNCHANGED built

\* ------------------------------------------------------- specifications
\* The objects as their constructors leave them: v = vec3(a), w = vec3(b),
\* r = ray(v, w)
Constructed(a, b) ==
    ray_ctor([o \in Obj |-> CASE o = "v" -> vec3(a[1], a[2], a[3])
                              [] o = "w" -> vec3(b[1], b[2], b[3])
                              [] OTHER -> vec3_default], "v", "w").heap

InitWith(a, b, n) ==
    /\ heap = Constructed(a, b)
    /\ ret = NoRet
    /\ exc = NoExc
    /\ call = NoCall
    /\ made = [v |-> a, w |-> b]
    /\ built = [O |-> vec3(a[1], a[2], a[3]), D |-> vec3(b[1], b[2], b[3])]
    /\ budget = n

Args == Doubles \X Doubles \X Doubles
ZeroArgs == <<Fin(0), Fin(0), Fin(0)>>

\* One call on a vector built from any three components
InitOne == \E a \in Args : InitWith(a, ZeroArgs, 1)
NextOne ==
    \/ \E d \in Doubles : NewX("v", d)
    \/ \E d \in Doubles : NewY("v", d)
    \/ \E d \in Doubles : NewZ("v", d)
    \/ \E i \in IdxArgs : IndexRead("v", i)
    \/ \E i \in IdxArgs, d \in Doubles : IndexWrite("v", i, d)
    \/ \E t \in Doubles : TimesDV(t, "v")
    \/ \E t \in Doubles : TimesVD("v", t)
SpecOne == InitOne /\ [][NextOne]_vars

\* One call of a pure operation on a pair of vectors, or on the ray built
\* from them
InitPure == \E a, b \in Args : InitWith(a, b, 1)
NextPure ==
    \/ Neg("v")
    \/ \E p \in Mine : Plus("v", p)
    \/ \E p \in Mine : Minus("v", p)
    \/ \E p \in Mine : Times("v", p)
    \/ \E t \in Doubles : Div("v", t)
    \/ \E p \in Mine : Dot("v", p)
    \/ \E p \in Mine : Cross("v", p)
    \/ Length("v")
    \/ LengthSquared("v")
    \/ UnitVector("v")
    \/ PlusNeg("v")
    \/ PlusZero("v")
    \/ RayOrigin
    \/ RayDir
    \/ \E t \in Doubles : RayAt(t)
SpecPure == InitPure /\ [][NextPure]_vars

\* One compound assignment, or one chain of two, on a pair of vectors
NextCompound ==
    \/ \E p \in Mine : PlusEq("v", p)
    \/ \E t \in Doubles : TimesEq("v", t)
    \/ \E t \in Doubles : DivEq("v", t)
    \/ \E p, q \in Mine : ChainPlusEq("v", p, q)
    \/ \E s, t \in Doubles : ChainTimesEq("v", s, t)
SpecCompound == InitPure /\ [][NextCompound]_vars

\* Up to MaxOps calls, on objects that start default-constructed
Init == InitWith(ZeroArgs, ZeroArgs, MaxOps)
Next ==
    \/ \E o \in Held, d \in Doubles : NewX(o, d)
    \/ \E o \in Held, d \in Doubles : NewY(o, d)
    \/ \E o \in Held, d \in Doubles : NewZ(o, d)
    \/ \E o \in Held, i \in IdxArgs : IndexWrite(o, i, Fin(MaxVal))
    \/ \E o \in Held, p \in Mine : PlusEq(o, p)
    \/ \E o \in Held, t \in Doubles : TimesEq(o, t)
    \/ \E o, p \in Mine : RayCtor(o, p)
    \/ RayOrigin
    \/ RayDir
    \/ \E t \in Doubles : RayAt(t)
Spec == Init /\ [][Next]_vars

\* ------------------------------------------------------------- properties
\* the comparison p == q of two doubles: a NaN equals nothing, -0 equals +0
DEq(p, q) ==
    CASE p.k = "nan" \/ q.k = "nan" -> FALSE
      [] IsZero(p) /\ IsZero(q) -> TRUE
      [] OTHER -> p = q
\* p and q are equal as doubles: p == q, or both are NaN
SameD(p, q) == DEq(p, q) \/ (p.k = "nan" /\ q.k = "nan")
\* every component is a finite number
AllFin(e) == \A j \in 0..2 : e[j].k = "fin"
NoNaN(e) == \A j \in 0..2 : e[j].k # "nan"
\* the vector made from three constructor arguments
Made(a) == vec3(a[1], a[2], a[3])

\* C1: for every index that is not 0, 1 or 2 the indexed read and the indexed
\* write both throw, nothing is returned, and the two paths make the same
\* test and throw the same kind of exception.
C1_IndexOutOfRange ==
    /\ (call.op \in {"index_read", "index_write"} /\ call.i \notin {0, 1, 2})
          => (exc.type = "std::invalid_argument" /\ ret = NoRet)
    /\ \A i \in IdxArgs :
          LET rd == operator_index_const(heap, "v", ToUnsigned(i))
              wr == operator_index(heap, "v", ToUnsigned(i))
          IN  /\ rd.exc.type = wr.exc.type
              /\ (i \notin {0, 1, 2}) <=> (rd.exc # NoExc)
C1_Witness ==
    /\ call.op = "index_write"
    /\ call.i < 0
    /\ exc.type = "std::invalid_argument"

\* C2: a read at i in {0,1,2} returns the i-th constructor argument, and after
\* a write of d at i in {0,1,2} a read at i returns d.
C2_ReadWrite ==
    /\ (call.op = "index_read" /\ call.i \in {0, 1, 2})
          => (exc = NoExc /\ ret = RetDouble(made.v[call.i + 1]))
    /\ (call.op = "index_write" /\ call.i \in {0, 1, 2})
          => /\ exc = NoExc
             /\ operator_index_const(heap, call.this, ToUnsigned(call.i))
                   = Returns(heap, RetDouble(call.d))
C2_Witness ==
    /\ call.op = "index_write"
    /\ call.i = 2
    /\ call.d = Fin(-1)
    /\ made.v[3] = PInf
    /\ heap["v"][2] = Fin(-1)

\* C5: t * v and v * t give the same vector, each component the product of t
\* and the component of v.
C5_ScalarCommutes ==
    call.op \in {"times_dv", "times_vd"} =>
        LET other == IF call.op = "times_dv"
                     THEN operator_times_vd(heap, call.arg, call.d)
                     ELSE operator_times_dv(heap, call.d, call.arg)
        IN  \A j \in 0..2 :
              /\ heap["tmp"][j] = DMul(call.d, made.v[j + 1])
              /\ SameD(heap["tmp"][j], other.heap["tmp"][j])
C5_Witness ==
    /\ call.op = "times_vd"
    /\ call.d = Fin(-1)
    /\ made.v = <<Fin(1), PInf, Fin(0)>>
    /\ heap["tmp"] = vec3(Fin(-1), NInf, NegZero)

Scratch(A, B) ==
    [o \in Obj |-> CASE o = "v" -> A [] o = "w" -> B [] OTHER -> vec3_default]
PlusV(A, B) == operator_plus(Scratch(A, B), "v", "w").heap["tmp"]
MinusV(A, B) == operator_minus(Scratch(A, B), "v", "w").heap["tmp"]
ScaleV(s, A) == operator_times_dv(Scratch(A, A), s, "v").heap["tmp"]
\* r.at(t) on the ray of the current state
AtV(t) == at(heap, t).heap["tmp"]
\* at(t1) + s * (at(t2) - at(t1)) and at(t1 + s * (t2 - t1))
LerpV(t1, t2, s) == PlusV(AtV(t1), ScaleV(s, MinusV(AtV(t2), AtV(t1))))
AtLerpV(t1, t2, s) == AtV(DAdd(t1, DMul(s, DSub(t2, t1))))

PureOps == {"neg", "plus", "minus", "times", "div", "dot", "cross", "length",
            "length_squared", "unit_vector"}
\* C7: -v, v + w, v - w, v * w, v / t, dot, cross, length, length_squared and
\* unit_vector throw nothing, return a new value (a double, or a vec3 that is
\* a new object) and leave every component of the receiver, of the argument
\* and of every other object unchanged.
C7_Pure ==
    [][ call'.op \in PureOps =>
          /\ \A o \in Obj \ {"tmp"} : heap'[o] = heap[o]
          /\ exc' = NoExc
          /\ ret'.t \in {"vec3", "double"}
          /\ ret'.t = "vec3" => ret'.obj = "tmp" ]_vars
C7_Witness ==
    /\ call.op = "minus"
    /\ call.arg = "w"
    /\ made = [v |-> <<Fin(1), Fin(0), PInf>>, w |-> <<Fin(-1), Fin(1), PInf>>]
    /\ heap["v"] = Made(made.v)
    /\ heap["w"] = Made(made.w)
    /\ heap["tmp"] = vec3(Fin(2), Fin(-1), NaN)

\* w is k * v for an integer k
Parallel(ev, ew) ==
    \E k \in Fins : \A j \in 0..2 : DEq(ew[j], DMul(k, ev[j]))
\* -(p.cross(o)) on the vectors of the current state
NegCrossV(o, p) == operator_neg(cross(heap, p, o).heap, "tmp").heap["tmp"]
IsZeroVec(e) == \A j \in 0..2 : DEq(e[j], Fin(0))

\* C8: every component of v.cross(w) equals that of
\* -(w.cross(v)), or both are NaN; and for v, w with finite integer
\* components the cross product of v with itself, or with an integer multiple
\* of itself, is the zero vector.
C8_CrossAnti ==
    call.op = "cross" =>
        /\ \A j \in 0..2 :
              SameD(heap["tmp"][j], NegCrossV(call.this, call.arg)[j])
        /\ (AllFin(heap[call.this]) /\ AllFin(heap[call.arg])
              /\ (call.arg = call.this \/ Parallel(heap[call.this], heap[call.arg])))
              => IsZeroVec(heap["tmp"])
C8_Witness ==
    /\ call.op = "cross"
    /\ call.arg = "w"
    /\ heap["v"] = vec3(Fin(1), Fin(0), Fin(0))
    /\ heap["w"] = vec3(Fin(0), Fin(1), Fin(0))
    /\ heap["tmp"] = vec3(Fin(0), Fin(0), Fin(1))
    /\ NegCrossV("v", "w") = vec3(NegZero, NegZero, Fin(1))
\* C8 without the condition on the components: the cross product of any
\* vector with itself or with an integer multiple of itself is the zero
\* vector.
C8_Original ==
    call.op = "cross" =>
        /\ \A j \in 0..2 :
              SameD(heap["tmp"][j], NegCrossV(call.this, call.arg)[j])
        /\ (call.arg = call.this \/ Parallel(heap[call.this], heap[call.arg]))
              => IsZeroVec(heap["tmp"])

\* C9: v + (-v) is the zero vector for every v with finite
\* components, and v + vec3() equals v for every v that holds no NaN.
C9_AddIdentity ==
    /\ (call.op = "plus_neg" /\ AllFin(Made(made.v)))
          => IsZeroVec(heap["tmp"])
    /\ (call.op = "plus_zero" /\ NoNaN(Made(made.v)))
          => \A j \in 0..2 : DEq(heap["tmp"][j], made.v[j + 1])
C9_Witness ==
    /\ call.op = "plus_neg"
    /\ made.v = <<Fin(1), Fin(0), Fin(-1)>>
    /\ heap["tmp"] = vec3_default
\* C9 without the conditions on v: both equalities for every v.
C9_Original ==
    /\ call.op = "plus_neg" => IsZeroVec(heap["tmp"])
    /\ call.op = "plus_zero"
          => \A j \in 0..2 : SameD(heap["tmp"][j], made.v[j + 1])

\* C6: +=, *= (and /=, which is *= of the reciprocal) change the receiver in
\* place and return a reference to it, so that (v += a) += b leaves v equal to
\* (v0 + a) + b and (v *= s) *= t leaves it equal to (v0 * s) * t; the
\* right-hand vector is unchanged; v += v doubles every component of v.
C6_Compound ==
    [][ LET V == heap["v"]
            W == heap["w"]
            V1 == heap'["v"]
            c == call'
        IN  /\ c.op \in {"plus_eq", "times_eq", "div_eq", "chain_plus_eq",
                         "chain_times_eq"}
                  => /\ ret' = RetVecRef("v")
                     /\ c.this = "v"
                     /\ heap'["w"] = W
            /\ (c.op = "plus_eq" /\ c.arg = "w")
                  => \A j \in 0..2 : V1[j] = DAdd(V[j], W[j])
            /\ (c.op = "plus_eq" /\ c.arg = "v")
                  => \A j \in 0..2 : V1[j] = DMul(Fin(2), V[j])
            /\ (c.op = "chain_plus_eq" /\ c.arg = "w" /\ c.arg2 = "w")
                  => \A j \in 0..2 : V1[j] = DAdd(DAdd(V[j], W[j]), W[j])
            /\ c.op = "times_eq"
                  => \A j \in 0..2 : V1[j] = DMul(V[j], c.d)
            /\ c.op = "div_eq"
                  => \A j \in 0..2 : V1[j] = DMul(V[j], DDiv(Fin(1), c.d))
            /\ c.op = "chain_times_eq"
                  => \A j \in 0..2 : V1[j] = DMul(DMul(V[j], c.d), c.d2) ]_vars
C6_Witness ==
    /\ call.op = "chain_plus_eq"
    /\ call.arg = "w"
    /\ call.arg2 = "w"
    /\ made = [v |-> <<Fin(1), Fin(0), Fin(-1)>>, w |-> <<Fin(1), Fin(-1), PInf>>]
    /\ heap["v"] = vec3(Fin(3), Fin(-2), PInf)
    /\ heap["w"] = Made(made.w)
    /\ ret = RetVecRef("v")

\* C4: whatever calls are made on the ray, on the vectors it returned and on
\* the vectors its constructor was passed, the stored origin and direction
\* are those it was constructed from.
C4_RayImmutable ==
    /\ heap["start"] = built.O
    /\ heap["direction"] = built.D
C4_Witness ==
    /\ call.op \in {"newX", "newY", "newZ", "index_write", "plus_eq", "times_eq"}
    /\ call.this = "tmp"
    /\ heap["tmp"] # heap["start"]
    /\ heap["v"] # Made(made.v)
    /\ heap["v"] # heap["start"]
====
